---------------------------- MODULE Spec2Model ----------------------------
(***************************************************************************)
(* A model of the EDICT2 line parser of jrockway/edict (src/edict.go, the  *)
(* revision at lines 246-585, and the annotation table at lines 1143-1376).*)
(*                                                                         *)
(* A Go string is modelled as a sequence of one-character strings, one per *)
(* rune: "(n) f" is << "(", "n", ")", " ", "f" >>.  A nil slice and an     *)
(* empty slice are both the empty sequence.  An error value is modelled by *)
(* a string naming the place that made it, and nil by NoErr.               *)
(***************************************************************************)
EXTENDS Integers, Sequences, FiniteSets, Bags, TLC

-----------------------------------------------------------------------------
(* The string functions of Go's standard library that the parser calls.    *)

\* unicode.IsSpace, on the white space the model's inputs are written with.
WhiteSpace == {" ", "\t"}

RECURSIVE TrimLeft(_)
TrimLeft(s) ==
  IF s # << >> /\ Head(s) \in WhiteSpace THEN TrimLeft(Tail(s)) ELSE s

RECURSIVE TrimRight(_)
TrimRight(s) ==
  IF s # << >> /\ s[Len(s)] \in WhiteSpace
    THEN TrimRight(SubSeq(s, 1, Len(s) - 1))
    ELSE s

\* A variant that trims the left end only.
TrimSpaceLeftOnly(s) == TrimLeft(s)

\* strings.TrimSpace
TrimSpace(s) == TrimRight(TrimLeft(s))

\* strings.HasPrefix, strings.HasSuffix
HasPrefix(s, p) == Len(s) >= Len(p) /\ SubSeq(s, 1, Len(p)) = p
HasSuffix(s, p) == Len(s) >= Len(p) /\ SubSeq(s, Len(s) - Len(p) + 1, Len(s)) = p

\* strings.TrimPrefix, strings.TrimSuffix
TrimPrefix(s, p) == IF HasPrefix(s, p) THEN SubSeq(s, Len(p) + 1, Len(s)) ELSE s
TrimSuffix(s, p) == IF HasSuffix(s, p) THEN SubSeq(s, 1, Len(s) - Len(p)) ELSE s

\* strings.Index, 1-based; 0 when sep does not occur in s.
Index(s, sep) ==
  LET hits == {i \in 1..(Len(s) - Len(sep) + 1) : SubSeq(s, i, i + Len(sep) - 1) = sep}
  IN  IF hits = {} THEN 0 ELSE CHOOSE i \in hits : \A j \in hits : i <= j

\* strings.Split for a non-empty separator: the pieces between the
\* non-overlapping occurrences of sep, found left to right.
RECURSIVE Split(_, _)
Split(s, sep) ==
  LET i == Index(s, sep)
  IN  IF i = 0
        THEN << s >>
        ELSE << SubSeq(s, 1, i - 1) >> \o Split(SubSeq(s, i + Len(sep), Len(s)), sep)

\* strings.ContainsRune
ContainsRune(s, c) == \E i \in 1..Len(s) : s[i] = c

\* strconv.Atoi succeeds on an optional sign followed by one or more decimal
\* digits whose value fits a 64-bit int.
DigitValue ==
  [c \in {"0", "1", "2", "3", "4", "5", "6", "7", "8", "9"} |->
     CASE c = "0" -> 0 [] c = "1" -> 1 [] c = "2" -> 2 [] c = "3" -> 3
       [] c = "4" -> 4 [] c = "5" -> 5 [] c = "6" -> 6 [] c = "7" -> 7
       [] c = "8" -> 8 [] c = "9" -> 9]

RECURSIVE StripZeros(_)
StripZeros(s) == IF s # << >> /\ Head(s) = "0" THEN StripZeros(Tail(s)) ELSE s

\* The digits of 2^63 - 1 and of 2^63.
MaxInt64 == << 9,2,2,3,3,7,2,0,3,6,8,5,4,7,7,5,8,0,7 >>
MinInt64 == << 9,2,2,3,3,7,2,0,3,6,8,5,4,7,7,5,8,0,8 >>

\* a <= b for two digit sequences of the same length
RECURSIVE DigitsLeq(_, _)
DigitsLeq(a, b) ==
  IF a = << >> THEN TRUE
  ELSE IF Head(a) # Head(b) THEN Head(a) < Head(b)
  ELSE DigitsLeq(Tail(a), Tail(b))

AtoiOk(s) ==
  LET neg    == s # << >> /\ Head(s) = "-"
      signed == s # << >> /\ Head(s) \in {"+", "-"}
      body   == IF signed THEN Tail(s) ELSE s
      sig    == StripZeros(body)
      limit  == IF neg THEN MinInt64 ELSE MaxInt64
  IN  /\ body # << >>
      /\ \A i \in 1..Len(body) : body[i] \in DOMAIN DigitValue
      /\ \/ Len(sig) < Len(limit)
         \/ /\ Len(sig) = Len(limit)
            /\ DigitsLeq([i \in 1..Len(sig) |-> DigitValue[sig[i]]], limit)

\* Concatenation of a sequence of strings, and strings.Join.
RECURSIVE Flatten(_)
Flatten(ss) == IF ss = << >> THEN << >> ELSE Head(ss) \o Flatten(Tail(ss))

RECURSIVE Join(_, _)
Join(ss, sep) ==
  IF ss = << >> THEN << >>
  ELSE IF Len(ss) = 1 THEN ss[1]
  ELSE ss[1] \o sep \o Join(Tail(ss), sep)

\* The sequences over S of length at most n.
SeqUpTo(S, n) == UNION {[1..k -> S] : k \in 0..n}

-----------------------------------------------------------------------------
(* The annotation table: Detail, DetailString, DetailFor.  A Detail is     *)
(* modelled by its Go constant's name.                                     *)

DetailString ==
  [
     Adj_i |-> <<"a","d","j","-","i">>,
     Adj_na |-> <<"a","d","j","-","n","a">>,
     Adj_no |-> <<"a","d","j","-","n","o">>,
     Adj_pn |-> <<"a","d","j","-","p","n">>,
     Adj_t |-> <<"a","d","j","-","t">>,
     Adj_f |-> <<"a","d","j","-","f">>,
     Adj |-> <<"a","d","j">>,
     Adv |-> <<"a","d","v">>,
     Adv_n |-> <<"a","d","v","-","n">>,
     Adv_to |-> <<"a","d","v","-","t","o">>,
     Aux |-> <<"a","u","x">>,
     Aux_v |-> <<"a","u","x","-","v">>,
     Aux_adj |-> <<"a","u","x","-","a","d","j">>,
     Conj |-> <<"c","o","n","j">>,
     Ctr |-> <<"c","t","r">>,
     Exp |-> <<"e","x","p">>,
     Int |-> <<"i","n","t">>,
     Iv |-> <<"i","v">>,
     N |-> <<"n">>,
     N_adv |-> <<"n","-","a","d","v">>,
     N_pref |-> <<"n","-","p","r","e","f">>,
     N_suf |-> <<"n","-","s","u","f">>,
     N_t |-> <<"n","-","t">>,
     Num |-> <<"n","u","m">>,
     Pn |-> <<"p","n">>,
     Pref |-> <<"p","r","e","f">>,
     Prt |-> <<"p","r","t">>,
     Suf |-> <<"s","u","f">>,
     V1 |-> <<"v","1">>,
     V2a_s |-> <<"v","2","a","-","s">>,
     V4h |-> <<"v","4","h">>,
     V4r |-> <<"v","4","r">>,
     V5 |-> <<"v","5">>,
     V5aru |-> <<"v","5","a","r","u">>,
     V5b |-> <<"v","5","b">>,
     V5g |-> <<"v","5","g">>,
     V5k |-> <<"v","5","k">>,
     V5k_s |-> <<"v","5","k","-","s">>,
     V5m |-> <<"v","5","m">>,
     V5n |-> <<"v","5","n">>,
     V5r |-> <<"v","5","r">>,
     V5r_i |-> <<"v","5","r","-","i">>,
     V5s |-> <<"v","5","s">>,
     V5t |-> <<"v","5","t">>,
     V5u |-> <<"v","5","u">>,
     V5u_s |-> <<"v","5","u","-","s">>,
     V5uru |-> <<"v","5","u","r","u">>,
     V5z |-> <<"v","5","z">>,
     Vz |-> <<"v","z">>,
     Vi |-> <<"v","i">>,
     Vk |-> <<"v","k">>,
     Vn |-> <<"v","n">>,
     Vs |-> <<"v","s">>,
     Vs_c |-> <<"v","s","-","c">>,
     Vs_i |-> <<"v","s","-","i">>,
     Vs_s |-> <<"v","s","-","s">>,
     Vt |-> <<"v","t">>,
     Buddh |-> <<"b","u","d","d","h">>,
     MA |-> <<"m","A">>,
     Comp |-> <<"c","o","m","p">>,
     Food |-> <<"f","o","o","d">>,
     Geom |-> <<"g","e","o","m">>,
     Gram |-> <<"g","r","a","m">>,
     Ling |-> <<"l","i","n","g">>,
     Math |-> <<"m","a","t","h">>,
     Mil |-> <<"m","i","l">>,
     Physics |-> <<"p","h","y","s","i","c","s">>,
     X |-> <<"x">>,
     Abbr |-> <<"a","b","b","r">>,
     Arch |-> <<"a","r","c","h">>,
     Ateji |-> <<"a","t","e","j","i">>,
     Chn |-> <<"c","h","n">>,
     Col |-> <<"c","o","l">>,
     Derog |-> <<"d","e","r","o","g">>,
     EK |-> <<"e","K">>,
     Ek |-> <<"e","k">>,
     Fam |-> <<"f","a","m">>,
     Fem |-> <<"f","e","m">>,
     Gikun |-> <<"g","i","k","u","n">>,
     Hon |-> <<"h","o","n">>,
     Hum |-> <<"h","u","m">>,
     Ik |-> <<"i","k">>,
     IK |-> <<"i","K">>,
     Id |-> <<"i","d">>,
     Io |-> <<"i","o">>,
     M_sl |-> <<"m","-","s","l">>,
     Male |-> <<"m","a","l","e">>,
     Male_sl |-> <<"m","a","l","e","-","s","l">>,
     OK |-> <<"o","K">>,
     Obs |-> <<"o","b","s">>,
     Obsc |-> <<"o","b","s","c">>,
     Ok |-> <<"o","k">>,
     On_mim |-> <<"o","n","-","m","i","m">>,
     Poet |-> <<"p","o","e","t">>,
     Pol |-> <<"p","o","l">>,
     Rare |-> <<"r","a","r","e">>,
     Sens |-> <<"s","e","n","s">>,
     Sl |-> <<"s","l">>,
     UK |-> <<"u","K">>,
     Uk |-> <<"u","k">>,
     Vulg |-> <<"v","u","l","g">>,
     Common |-> <<"P">>
  ]

Detail == DOMAIN DetailString

\* A variant that stores one and the same annotation under every code.
DetailForOne ==
  [s \in {DetailString[d] : d \in Detail} |-> CHOOSE d \in Detail : TRUE]

\* init() fills DetailFor with DetailString inverted.
DetailFor ==
  [s \in {DetailString[d] : d \in Detail} |->
     CHOOSE d \in Detail : DetailString[d] = s]

NoErr == "nil"

-----------------------------------------------------------------------------
(* parseIdentifier *)

\* A variant without the integer case.
parseIdentifierNoAtoi(s) ==
  IF HasPrefix(s, << "S", "e", "e", " " >>)
    THEN [class |-> "xref", identifier |-> TrimPrefix(s, << "S", "e", "e", " " >>)]
  ELSE IF s \in DOMAIN DetailFor THEN [class |-> "detail", identifier |-> s]
  ELSE [class |-> "text", identifier |-> s]

parseIdentifier(s) ==
  IF AtoiOk(s) THEN [class |-> "none", identifier |-> << >>]
  ELSE IF HasPrefix(s, << "S", "e", "e", " " >>)
    THEN [class |-> "xref", identifier |-> TrimPrefix(s, << "S", "e", "e", " " >>)]
  ELSE IF s \in DOMAIN DetailFor THEN [class |-> "detail", identifier |-> s]
  ELSE [class |-> "text", identifier |-> s]

-----------------------------------------------------------------------------
(* parseGloss: the state machine, one step per rune.  A machine state is a *)
(* record of the function's locals.                                        *)

GlossStart ==
  [state |-> "startGS", captured |-> << >>, defcapture |-> << >>,
   details |-> << >>, xrefs |-> << >>, err |-> NoErr]

\* A variant that puts a new annotation or cross-reference first.
GlossClosePrepends(g) ==
  LET id == parseIdentifier(g.captured)
  IN  CASE id.class = "detail" ->
             [g EXCEPT !.state = "closedGS",
                       !.details = << DetailFor[id.identifier] >> \o @,
                       !.captured = << >>]
        [] id.class = "xref" ->
             [g EXCEPT !.state = "closedGS",
                       !.xrefs = << id.identifier >> \o @,
                       !.captured = << >>]
        [] id.class = "text" ->
             [g EXCEPT !.state = "definitionGS",
                       !.defcapture = @ \o << "(" >> \o g.captured \o << ")" >>,
                       !.captured = << >>]
        [] OTHER ->
             [g EXCEPT !.state = "closedGS", !.captured = << >>]

\* A variant that stays in closedGS after a parenthetical of free text.
GlossCloseStaysClosed(g) ==
  LET id == parseIdentifier(g.captured)
  IN  CASE id.class = "detail" ->
             [g EXCEPT !.state = "closedGS",
                       !.details = Append(@, DetailFor[id.identifier]),
                       !.captured = << >>]
        [] id.class = "xref" ->
             [g EXCEPT !.state = "closedGS",
                       !.xrefs = Append(@, id.identifier),
                       !.captured = << >>]
        [] id.class = "text" ->
             [g EXCEPT !.state = "closedGS",
                       !.defcapture = @ \o << "(" >> \o g.captured \o << ")" >>,
                       !.captured = << >>]
        [] OTHER ->
             [g EXCEPT !.state = "closedGS", !.captured = << >>]

\* case captureGS, c == ')'
GlossClose(g) ==
  LET id == parseIdentifier(g.captured)
  IN  CASE id.class = "detail" ->
             [g EXCEPT !.state = "closedGS",
                       !.details = Append(@, DetailFor[id.identifier]),
                       !.captured = << >>]
        [] id.class = "xref" ->
             [g EXCEPT !.state = "closedGS",
                       !.xrefs = Append(@, id.identifier),
                       !.captured = << >>]
        [] id.class = "text" ->
             [g EXCEPT !.state = "definitionGS",
                       !.defcapture = @ \o << "(" >> \o g.captured \o << ")" >>,
                       !.captured = << >>]
        [] OTHER ->
             [g EXCEPT !.state = "closedGS", !.captured = << >>]

\* A variant without grouped tags: a comma is a rune like any other.
GlossCommaLiteral(g) == [g EXCEPT !.captured = Append(@, ",")]

\* A variant that takes the comma as the end of a cross-reference too.
GlossCommaEndsXref(g) ==
  LET id == parseIdentifier(g.captured)
  IN  IF id.class = "detail"
        THEN [g EXCEPT !.details = Append(@, DetailFor[id.identifier]),
                       !.captured = << >>]
      ELSE IF id.class = "xref"
        THEN [g EXCEPT !.xrefs = Append(@, id.identifier),
                       !.captured = << >>]
        ELSE [g EXCEPT !.captured = Append(@, ",")]

\* case captureGS, c == ','
GlossComma(g) ==
  LET id == parseIdentifier(g.captured)
  IN  IF id.class = "detail"
        THEN [g EXCEPT !.details = Append(@, DetailFor[id.identifier]),
                       !.captured = << >>]
        ELSE [g EXCEPT !.captured = Append(@, ",")]

\* A variant that lets any character pass after a ")".
GlossClosedIgnores(g, c) ==
  IF c = " " THEN [g EXCEPT !.state = "startGS"] ELSE g

\* case closedGS
GlossClosed(g, c) ==
  IF c = " " THEN [g EXCEPT !.state = "startGS"]
             ELSE [g EXCEPT !.err = "closed"]

\* A variant that opens a parenthetical at a "(" met in definitionGS.
GlossStepReopens(g, c) ==
  CASE g.state = "startGS" ->
         IF c = "(" THEN [g EXCEPT !.state = "captureGS"]
                    ELSE [g EXCEPT !.state = "definitionGS",
                                   !.defcapture = Append(@, c)]
    [] g.state = "definitionGS" ->
         IF c = "(" THEN [g EXCEPT !.state = "captureGS"]
                    ELSE [g EXCEPT !.defcapture = Append(@, c)]
    [] g.state = "captureGS" ->
         IF c = ")" THEN GlossClose(g)
         ELSE IF c = "," THEN GlossComma(g)
         ELSE [g EXCEPT !.captured = Append(@, c)]
    [] g.state = "closedGS" -> GlossClosed(g, c)
    [] OTHER -> [g EXCEPT !.err = "state"]

\* The body of the loop over the runes of the gloss.
GlossStep(g, c) ==
  CASE g.state = "startGS" ->
         IF c = "(" THEN [g EXCEPT !.state = "captureGS"]
                    ELSE [g EXCEPT !.state = "definitionGS",
                                   !.defcapture = Append(@, c)]
    [] g.state = "definitionGS" -> [g EXCEPT !.defcapture = Append(@, c)]
    [] g.state = "captureGS" ->
         IF c = ")" THEN GlossClose(g)
         ELSE IF c = "," THEN GlossComma(g)
         ELSE [g EXCEPT !.captured = Append(@, c)]
    [] g.state = "closedGS" -> GlossClosed(g, c)
    [] OTHER -> [g EXCEPT !.err = "state"]

\* A variant that returns the definition captured so far in any state.
GlossReturnAnyState(g) ==
  [def |-> g.defcapture, details |-> g.details, xrefs |-> g.xrefs, err |-> g.err]

\* What parseGloss returns from the machine state the loop ended in.
GlossReturn(g) ==
  IF g.state # "definitionGS"
    THEN [def |-> << >>, details |-> g.details, xrefs |-> g.xrefs,
          err |-> "not in definition state"]
    ELSE [def |-> g.defcapture, details |-> g.details, xrefs |-> g.xrefs,
          err |-> g.err]

RECURSIVE GlossRun(_, _)
GlossRun(g, s) == IF s = << >> THEN g ELSE GlossRun(GlossStep(g, Head(s)), Tail(s))

parseGloss(gloss) == GlossReturn(GlossRun(GlossStart, TrimSpace(gloss)))

-----------------------------------------------------------------------------
(* parseKey: the state machine, one step per rune. *)

KeyStart ==
  [state |-> "kanjiKS", capture |-> << >>, kanji |-> << >>, kana |-> << >>]

\* The record terminator branch: ';', or ']' in kanaKS, or ' ' in kanjiKS.
KeyTerminator(k, c) ==
  IF k.state = "kanjiKS"
    THEN [k EXCEPT !.kanji = Append(@, k.capture),
                   !.state = IF c = " " THEN "spaceKS" ELSE @,
                   !.capture = << >>]
  ELSE IF k.state = "kanaKS"
    THEN [k EXCEPT !.kana = Append(@, k.capture),
                   !.state = IF c = "]" THEN "doneKS" ELSE @,
                   !.capture = << >>]
  ELSE [k EXCEPT !.capture = << >>]

\* A variant that skips no space after the first one.
KeyStepOneSpace(k, c) ==
  IF c = ";" \/ (k.state = "kanaKS" /\ c = "]") \/ (k.state = "kanjiKS" /\ c = " ")
    THEN KeyTerminator(k, c)
  ELSE IF c = "[" /\ k.state = "spaceKS" THEN [k EXCEPT !.state = "kanaKS"]
  ELSE [k EXCEPT !.capture = Append(@, c)]

\* The body of the loop over the runes of the key.
KeyStep(k, c) ==
  IF c = ";" \/ (k.state = "kanaKS" /\ c = "]") \/ (k.state = "kanjiKS" /\ c = " ")
    THEN KeyTerminator(k, c)
  ELSE IF c = " " /\ k.state = "spaceKS" THEN k
  ELSE IF c = "[" /\ k.state = "spaceKS" THEN [k EXCEPT !.state = "kanaKS"]
  ELSE [k EXCEPT !.capture = Append(@, c)]

\* A variant that takes a reading still being accumulated as the last one.
KeyFlushReading(k) ==
  IF k.state = "kanjiKS"
    THEN [k EXCEPT !.kanji = Append(@, k.capture), !.capture = << >>,
                   !.state = "doneKS"]
  ELSE IF k.state = "kanaKS"
    THEN [k EXCEPT !.kana = Append(@, k.capture), !.capture = << >>,
                   !.state = "doneKS"]
    ELSE k

\* After the loop: a primary form still being accumulated is flushed.
KeyFlush(k) ==
  IF k.state = "kanjiKS"
    THEN [k EXCEPT !.kanji = Append(@, k.capture), !.capture = << >>,
                   !.state = "doneKS"]
    ELSE k

\* A variant that takes spaceKS at the end of the key as an error too.
KeyReturnDoneOnly(k0) ==
  LET k == KeyFlush(k0)
  IN  IF k.state # "doneKS"
        THEN [kanji |-> k.kanji, kana |-> k.kana, err |-> "not in done or space state"]
      ELSE IF Len(k.capture) # 0
        THEN [kanji |-> k.kanji, kana |-> k.kana, err |-> "chars still in capture buffer"]
      ELSE [kanji |-> k.kanji, kana |-> k.kana, err |-> NoErr]

\* What parseKey returns from the machine state the loop ended in.
KeyReturn(k0) ==
  LET k == KeyFlush(k0)
  IN  IF ~(k.state = "doneKS" \/ k.state = "spaceKS")
        THEN [kanji |-> k.kanji, kana |-> k.kana, err |-> "not in done or space state"]
      ELSE IF Len(k.capture) # 0
        THEN [kanji |-> k.kanji, kana |-> k.kana, err |-> "chars still in capture buffer"]
      ELSE [kanji |-> k.kanji, kana |-> k.kana, err |-> NoErr]

RECURSIVE KeyRun(_, _)
KeyRun(k, s) == IF s = << >> THEN k ELSE KeyRun(KeyStep(k, Head(s)), Tail(s))

parseKey(key) == KeyReturn(KeyRun(KeyStart, TrimSpace(key)))

\* A variant that cuts the key at its last "(".
fixKeyLastParen(key) ==
  IF ContainsRune(key, "(")
    THEN LET parts == Split(key, << "(" >>)
         IN  Join(SubSeq(parts, 1, Len(parts) - 1), << "(" >>)
    ELSE key

fixKey(key) ==
  IF ContainsRune(key, "(") THEN Split(key, << "(" >>)[1] ELSE key

-----------------------------------------------------------------------------
(* parseLine.  Its outcome is a record: panic is TRUE when the call aborts *)
(* on an index out of range, and otherwise err and result are the two      *)
(* values it returns.                                                      *)

EmptyEntry ==
  [Kanji |-> << >>, Kana |-> << >>, Information |-> << >>, Gloss |-> << >>,
   Sequence |-> << >>, RecordingAvailable |-> FALSE]

Returned(e, r) == [panic |-> FALSE, err |-> e, result |-> r]
Panicked(r) == [panic |-> TRUE, err |-> NoErr, result |-> r]

TheMarker == << "(", "1", ")" >>
TheCommonField == << "(", "P", ")" >>
FakeDefinition ==
  << "f","a","k","e"," ","d","e","f","i","n","i","t","i","o","n" >>

\* A variant that leaves the "X" in the Sequence.
SetSequenceKeepsMarker(entry, field) ==
  IF HasSuffix(field, << "X" >>)
    THEN [entry EXCEPT !.RecordingAvailable = TRUE, !.Sequence = field]
    ELSE [entry EXCEPT !.Sequence = field]

\* result.Sequence and result.RecordingAvailable, from parts[len(parts)-2].
SetSequence(entry, field) ==
  IF HasSuffix(field, << "X" >>)
    THEN [entry EXCEPT !.RecordingAvailable = TRUE,
                        !.Sequence = TrimSuffix(field, << "X" >>)]
    ELSE [entry EXCEPT !.Sequence = field]

\* A variant that leaves the whole first gloss in glosses[0].
EntryDetailsKeepsFirst(parts) ==
  LET firstGlossParts == Split(parts[2], TheMarker)
      g == parseGloss(firstGlossParts[1] \o FakeDefinition)
  IN  IF Len(parts) > 4 /\ Len(firstGlossParts) = 2
        THEN IF g.err # NoErr
               THEN [err |-> "parsing entry details", info |-> << >>, first |-> parts[2]]
             ELSE IF Len(g.xrefs) # 0
               THEN [err |-> "unexpected xref in global details section",
                     info |-> << >>, first |-> parts[2]]
             ELSE [err |-> NoErr, info |-> g.details, first |-> parts[2]]
        ELSE [err |-> NoErr, info |-> << >>, first |-> parts[2]]

\* A variant that splits the first gloss at the marker on a line of any
\* length.
EntryDetailsAnyLength(parts) ==
  LET firstGlossParts == Split(parts[2], TheMarker)
      g == parseGloss(firstGlossParts[1] \o FakeDefinition)
  IN  IF Len(firstGlossParts) = 2
        THEN IF g.err # NoErr
               THEN [err |-> "parsing entry details", info |-> << >>, first |-> parts[2]]
             ELSE IF Len(g.xrefs) # 0
               THEN [err |-> "unexpected xref in global details section",
                     info |-> << >>, first |-> parts[2]]
             ELSE [err |-> NoErr, info |-> g.details, first |-> firstGlossParts[2]]
        ELSE [err |-> NoErr, info |-> << >>, first |-> parts[2]]

\* A variant that lets a cross-reference before the marker pass.
EntryDetailsAllowsXref(parts) ==
  LET firstGlossParts == Split(parts[2], TheMarker)
      g == parseGloss(firstGlossParts[1] \o FakeDefinition)
  IN  IF Len(parts) > 4 /\ Len(firstGlossParts) = 2
        THEN IF g.err # NoErr
               THEN [err |-> "parsing entry details", info |-> << >>, first |-> parts[2]]
             ELSE [err |-> NoErr, info |-> g.details, first |-> firstGlossParts[2]]
        ELSE [err |-> NoErr, info |-> << >>, first |-> parts[2]]

\* The entry-wide details of a line with more than one gloss: what the
\* block under "if len(parts) > 4" leaves in result.Information and in
\* glosses[0] (first).
EntryDetails(parts) ==
  LET firstGlossParts == Split(parts[2], TheMarker)
      g == parseGloss(firstGlossParts[1] \o FakeDefinition)
  IN  IF Len(parts) > 4 /\ Len(firstGlossParts) = 2
        THEN IF g.err # NoErr
               THEN [err |-> "parsing entry details", info |-> << >>, first |-> parts[2]]
             ELSE IF Len(g.xrefs) # 0
               THEN [err |-> "unexpected xref in global details section",
                     info |-> << >>, first |-> parts[2]]
             ELSE [err |-> NoErr, info |-> g.details, first |-> firstGlossParts[2]]
        ELSE [err |-> NoErr, info |-> << >>, first |-> parts[2]]

\* glosses: the first gloss, then parts[2 : len(parts)-2] of a line with
\* more than one gloss.
Glosses(parts, gloss0) ==
  IF Len(parts) > 4
    THEN << gloss0 >> \o SubSeq(parts, 3, Len(parts) - 2)
    ELSE << gloss0 >>

\* A variant of the loop that also keeps "(P)" as a Gloss.
RECURSIVE GlossLoopKeepsCommon(_, _)
GlossLoopKeepsCommon(entry, glosses) ==
  IF glosses = << >> THEN [err |-> NoErr, result |-> entry]
  ELSE IF Head(glosses) = TheCommonField
    THEN GlossLoopKeepsCommon(
           [entry EXCEPT !.Information = Append(@, "Common"),
                         !.Gloss = Append(@, [Definition |-> TheCommonField,
                                              Information |-> << >>,
                                              Xref |-> << >>])],
           Tail(glosses))
  ELSE LET p == parseGloss(Head(glosses))
       IN  IF p.err # NoErr
             THEN [err |-> "parsing gloss", result |-> entry]
             ELSE GlossLoopKeepsCommon(
                    [entry EXCEPT !.Gloss =
                       Append(@, [Definition |-> p.def, Information |-> p.details,
                                  Xref |-> p.xrefs])],
                    Tail(glosses))

\* The loop over glosses.
RECURSIVE GlossLoop(_, _)
GlossLoop(entry, glosses) ==
  IF glosses = << >> THEN [err |-> NoErr, result |-> entry]
  ELSE IF Head(glosses) = TheCommonField
    THEN GlossLoop([entry EXCEPT !.Information = Append(@, "Common")],
                   Tail(glosses))
  ELSE LET p == parseGloss(Head(glosses))
       IN  IF p.err # NoErr
             THEN [err |-> "parsing gloss", result |-> entry]
             ELSE GlossLoop(
                    [entry EXCEPT !.Gloss =
                       Append(@, [Definition |-> p.def, Information |-> p.details,
                                  Xref |-> p.xrefs])],
                    Tail(glosses))

\* A variant that does not clear the details of the gloss.
TransferDetailsCopies(parts, entry) ==
  IF Len(parts) <= 4
    THEN IF Len(entry.Gloss) = 0
           THEN Panicked(entry)
           ELSE Returned(NoErr,
                  [entry EXCEPT !.Information = entry.Gloss[1].Information])
    ELSE Returned(NoErr, entry)

\* "In the event that there's only one gloss, transfer the details to the
\* entry."  result.Gloss[0] is out of range when result.Gloss is empty.
TransferDetails(parts, entry) ==
  IF Len(parts) <= 4
    THEN IF Len(entry.Gloss) = 0
           THEN Panicked(entry)
           ELSE Returned(NoErr,
                  [entry EXCEPT !.Information = entry.Gloss[1].Information,
                                 !.Gloss[1].Information = << >>])
    ELSE Returned(NoErr, entry)

\* The two loops that pass every key through fixKey.
FixKeys(entry) ==
  [entry EXCEPT !.Kanji = [i \in 1..Len(@) |-> fixKey(@[i])],
                 !.Kana = [i \in 1..Len(@) |-> fixKey(@[i])]]

\* The rest of parseLine once the last component was found blank.
ParseParts(parts) ==
  IF Len(parts) < 2 THEN Panicked(EmptyEntry)   \* parts[len(parts)-2]
  ELSE
    LET r1  == SetSequence(EmptyEntry, parts[Len(parts) - 1])
        key == parseKey(parts[1])
        r2  == [r1 EXCEPT !.Kanji = key.kanji, !.Kana = key.kana]
        ed  == EntryDetails(parts)
        r3  == [r2 EXCEPT !.Information = ed.info]
        gl  == GlossLoop(r3, Glosses(parts, ed.first))
        tr  == TransferDetails(parts, gl.result)
    IN  IF key.err # NoErr THEN Returned(key.err, r2)
        ELSE IF ed.err # NoErr THEN Returned(ed.err, r2)
        ELSE IF gl.err # NoErr THEN Returned(gl.err, gl.result)
        ELSE IF tr.panic THEN tr
        ELSE Returned(NoErr, FixKeys(tr.result))

\* A variant that looks at the last component after everything else.
parseLineChecksLast(text) ==
  LET parts == Split(text, << "/" >>)
      r == ParseParts(parts)
  IN  IF r.panic \/ r.err # NoErr THEN r
      ELSE IF parts[Len(parts)] # << >>
        THEN Returned("last component should be blank", EmptyEntry)
        ELSE r

parseLine(text) ==
  LET parts == Split(text, << "/" >>)
  IN  IF parts[Len(parts)] # << >>
        THEN Returned("last component should be blank", EmptyEntry)
        ELSE ParseParts(parts)

-----------------------------------------------------------------------------
(* Parse.  blacklist holds the numbers of the lines Parse skips when they  *)
(* fail to parse.                                                          *)

blacklist == {5189, 31179, 104168, 104171, 148763}

\* A variant that compares a 0-based line number.
KnownBadZeroBased(n) == \E knownBadLine \in blacklist : knownBadLine = n - 1

\* The loop over blacklist: "if knownBadLine == line { continue lines }".
KnownBad(n) == \E knownBadLine \in blacklist : knownBadLine = n

\* A variant that puts the new Entry first.
PrependEntry(res, entry) == << entry >> \o res

\* result = append(result, entry)
AppendEntry(res, entry) == Append(res, entry)

NilError == [kind |-> "nil", line |-> 0, cause |-> NoErr]
\* fmt.Errorf("parse: line %d: %s", line, err)
ParseError(n, cause) == [kind |-> "parse", line |-> n, cause |-> cause]
\* A variant that reports the failed read as the parse failure of a line.
PastEOFErrorAsParse(n) == ParseError(n, "scanner")

\* fmt.Errorf("parse: past EOF (line %d): %s", line, err)
PastEOFError(n) == [kind |-> "past EOF", line |-> n, cause |-> "scanner"]

-----------------------------------------------------------------------------
(* The inputs.  A gloss is written from a description of it: the tokens of *)
(* its leading parentheticals, which of them are joined to the one before  *)
(* by a comma, the text that separates a ")" from what follows, and the    *)
(* text after the last parenthetical.                                      *)

Str1(a) == << a >>
Str2(a, b) == << a, b >>
Str3(a, b, c) == << a, b, c >>

Ordinal(digits) == [kind |-> "int", val |-> digits]
CrossRef(target) == [kind |-> "xref", val |-> target]
Tag(d) == [kind |-> "detail", val |-> d]
Remark(text) == [kind |-> "text", val |-> text]

RenderToken(t) ==
  CASE t.kind = "int" -> t.val
    [] t.kind = "xref" -> << "S", "e", "e", " " >> \o t.val
    [] t.kind = "detail" -> DetailString[t.val]
    [] OTHER -> t.val

RECURSIVE RenderToks(_, _, _, _)
RenderToks(toks, joined, gap, i) ==
  IF i > Len(toks) THEN << >>
  ELSE (IF joined[i] THEN << "," >> ELSE << "(" >>)
       \o RenderToken(toks[i])
       \o (IF i < Len(toks) /\ joined[i + 1] THEN << >> ELSE << ")" >> \o gap)
       \o RenderToks(toks, joined, gap, i + 1)

RenderGloss(src) == RenderToks(src.toks, src.joined, src.gap, 1) \o src.text

\* Every way to mark the tokens after the first as joined or not.
Joinings(n) == {j \in [1..n -> BOOLEAN] : n > 0 => ~j[1]}

\* The same tokens, each in a parenthetical of its own.
Separate(src) == [src EXCEPT !.joined = [i \in 1..Len(src.toks) |-> FALSE]]

MaxToks == 2

Tokens ==
  { Ordinal(Str1("1")), CrossRef(Str3("a", ",", "b")), Tag("N"), Tag("UK"),
    Remark(Str2("e", ".")) }

Gaps == { Str1(" "), << >>, Str2(" ", " "), Str2("x", " ") }

Texts ==
  { Str1("f"), Str2(" ", "f"), Str2("f", " "), << >>, Str2("(", "n"),
    << "f", " ", "(", "n", ")" >> }

\* An integer too large for a 64-bit int, and a cross-reference target
\* that holds a ")".
OddTokens ==
  { Ordinal([i \in 1..(Len(MaxInt64) + 1) |-> "9"]), CrossRef(Str2("a", ")")) }

GlossSources ==
  UNION { { [toks |-> ts, joined |-> j, gap |-> g, text |-> t] :
              j \in Joinings(Len(ts)), g \in Gaps, t \in Texts } :
          ts \in SeqUpTo(Tokens, MaxToks) }
  \cup { [toks |-> << k >>, joined |-> << FALSE >>, gap |-> g, text |-> t] :
            k \in OddTokens, g \in Gaps, t \in Texts }

NoGloss == [toks |-> << >>, joined |-> << >>, gap |-> << >>, text |-> << >>]
NoGlossReturn == [def |-> << >>, details |-> << >>, xrefs |-> << >>, err |-> NoErr]

-----------------------------------------------------------------------------
(* A line is written from a description of it: the key field, the gloss    *)
(* fields and the sequence field, joined by "/", and a closing "/" or      *)
(* none.  A gloss field is "(P)", or the tags before the marker "(1)", the *)
(* marker or none, the tags after it and the definition text, each tag in  *)
(* a parenthetical of its own followed by one space.  A raw line is        *)
(* written rune by rune.                                                   *)

RECURSIVE RenderTags(_)
RenderTags(toks) ==
  IF toks = << >> THEN << >>
  ELSE << "(" >> \o RenderToken(Head(toks)) \o << ")", " " >> \o RenderTags(Tail(toks))

RenderField(f) ==
  IF f.common THEN TheCommonField
  ELSE RenderTags(f.pre)
       \o (IF f.marker THEN TheMarker \o << " " >> ELSE << >>)
       \o RenderTags(f.toks) \o f.text

RenderLine(src) ==
  IF src.raw THEN src.text
  ELSE Join(<< src.key >> \o [i \in 1..Len(src.fields) |-> RenderField(src.fields[i])]
              \o << src.id >>, << "/" >>)
       \o (IF src.closed THEN << "/" >> ELSE << >>)

Field(pre, marker, toks, text) ==
  [common |-> FALSE, pre |-> pre, marker |-> marker, toks |-> toks, text |-> text]

CommonField ==
  [common |-> TRUE, pre |-> << >>, marker |-> FALSE, toks |-> << >>, text |-> << >>]

TwoMarkers == << "f", " ", "(", "1", ")", " ", "g" >>

\* The first gloss field of a line.
FirstFields ==
  { Field(<< >>, FALSE, << >>, Str1("f")),
    Field(<< >>, FALSE, << Tag("N") >>, Str1("f")),
    Field(<< Tag("N") >>, TRUE, << Tag("UK") >>, Str1("f")),
    Field(<< >>, TRUE, << >>, Str1("f")),
    CommonField,
    Field(<< Tag("N"), CrossRef(Str1("a")) >>, TRUE, << >>, Str1("f")),
    Field(<< Tag("N"), CrossRef(Str1("a")) >>, TRUE, << >>, TwoMarkers),
    Field(<< Tag("N") >>, TRUE, << >>, TwoMarkers),
    Field(<< Tag("N") >>, TRUE, << CrossRef(Str3("a", ",", "b")) >>, Str1("f")),
    Field(<< >>, FALSE, << Tag("N") >>, TwoMarkers),
    Field(<< >>, FALSE, << Tag("N") >>, << >>) }

\* The gloss fields after the first.
RestFields ==
  { Field(<< >>, FALSE, << >>, Str1("g")),
    Field(<< >>, FALSE, << Ordinal(Str1("2")), Tag("UK") >>, Str1("g")),
    CommonField,
    Field(<< >>, FALSE, << >>, << >>) }

MaxRest == 2

KeyAx == << "A", " ", "[", "x", "]", " " >>

Keys ==
  { Str2("A", " "),
    << "A", ";", "B", " ", "[", "x", ";", "y", "]", " " >>,
    << "A", "(", "b", ")", " ", "[", "x", "(", "P", ")", ";", "y", "]", " " >>,
    << "A", " ", "[", "x", " " >>,
    << "A", " ", " ", "[", "x", "]" >> }

Ids == { Str1("1"), Str2("2", "X") }

\* Sequence fields at the edge: empty, the marker alone, twice, not last,
\* in lower case.
OddIds ==
  { << >>, Str1("X"), Str3("1", "X", "X"), Str2("X", "1"), Str2("1", "x") }

Line(key, fields, id, closed) ==
  [raw |-> FALSE, text |-> << >>, key |-> key, fields |-> fields, id |-> id,
   closed |-> closed]

RawLine(text) ==
  [raw |-> TRUE, text |-> text, key |-> << >>, fields |-> << >>, id |-> << >>,
   closed |-> FALSE]

MaxChunks == 4

Chunks == { Str1("A"), Str1("/"), TheCommonField }

\* Keys of one form and one reading, each with "(" and ")" anywhere, as in
\* the keys of TestFixKey.
MaxFormLen == 3

ParenKeys ==
  { form \o << " ", "[" >> \o reading \o << "]", " " >> :
      form \in SeqUpTo({"A", "("}, MaxFormLen) \ {<< >>},
      reading \in { << "x", "(", "P", ")", " ", "(", "y", ")" >> }
                   \cup (SeqUpTo({"x", "(", ")"}, MaxFormLen - 1) \ {<< >>}) }

LineSources ==
  { Line(KeyAx, << f >> \o rest, id, TRUE) :
      f \in FirstFields, rest \in SeqUpTo(RestFields, MaxRest), id \in Ids }
  \cup { Line(k, << f >>, Str1("1"), c) :
           k \in Keys, f \in {Field(<< >>, FALSE, << Tag("N") >>, Str1("f"))},
           c \in BOOLEAN }
  \cup { Line(k, << Field(<< >>, FALSE, << Tag("N") >>, Str1("f")) >>,
                Str1("1"), TRUE) : k \in ParenKeys }
  \cup { Line(KeyAx, << Field(<< >>, FALSE, << Tag("N") >>, Str1("f")) >>,
                id, TRUE) : id \in OddIds }
  \cup { RawLine(Flatten(<< Str2("A", "/"), pre, TheMarker, TheCommonField, Str1("/") >>
                          \o rest \o << Str2("1", "/") >>)) :
           pre \in {<< >>, << "(", "n", ")", " " >>},
           rest \in {<< >>, << Str2("A", "/") >>} }
  \cup { RawLine(Flatten(cs)) : cs \in SeqUpTo(Chunks, MaxChunks) }

NoLine == RawLine(<< >>)

\* The lines Parse is given.
ParseLines ==
  { RenderLine(Line(KeyAx, << Field(<< >>, FALSE, << >>, Str1("f")) >>, Str1("1"), TRUE)),
    RenderLine(Line(KeyAx, << Field(<< Tag("N") >>, TRUE, << Tag("UK") >>, Str1("f")),
                              Field(<< >>, FALSE, << >>, Str1("g")) >>,
                    Str2("2", "X"), TRUE)),
    RenderLine(Line(KeyAx, << Field(<< >>, FALSE, << >>, Str1("f")) >>, Str1("1"), FALSE)),
    RenderLine(Line(<< "A", " ", "[", "x", " " >>,
                    << Field(<< >>, FALSE, << >>, Str1("f")) >>, Str1("1"), TRUE)),
    << >> }

MaxLines == 3

-----------------------------------------------------------------------------
(* The strings given to parseIdentifier are written from a description of  *)
(* them too: an integer (a sign or none, then digits), a cross-reference   *)
(* (any target), an annotation (any of the table) or free text.            *)

MaxIdLen == 3

IdDigits == { "0", "1", "9" }
IdRunes == { "a", " ", "1", "n", "," }
Signs == { << >>, << "+" >>, << "-" >> }

\* strconv.Atoi on 2^63 - 1 and on -2^63, the ends of the range of an int.
MaxIntText == [i \in 1..Len(MaxInt64) |-> CHOOSE c \in DOMAIN DigitValue : DigitValue[c] = MaxInt64[i]]
MinIntText == << "-" >> \o [i \in 1..Len(MinInt64) |-> CHOOSE c \in DOMAIN DigitValue : DigitValue[c] = MinInt64[i]]

\* Texts that are no integer, no cross-reference and no annotation code:
\* the empty string, a sign alone, digits with a space or a letter, an
\* integer out of the range of an int, "See" without its space or in lower
\* case, a code in upper case or with a space.
Remarks ==
  { << >>, << "-" >>, << "+" >>, Str2("1", " "), Str2(" ", "1"), Str2("1", "a"),
    Str3("1", "-", "1"), Str3("-", "-", "1"),
    [i \in 1..Len(MaxInt64) |-> IF i = Len(MaxInt64) THEN "8" ELSE MaxIntText[i]],
    [i \in 1..Len(MinIntText) |-> IF i = Len(MinIntText) THEN "9" ELSE MinIntText[i]],
    [i \in 1..(Len(MaxInt64) + 1) |-> "9"],
    Str3("S", "e", "e"), << "s", "e", "e", " ", "a" >>, << "S", "e", "e", "a" >>,
    << " ", "S", "e", "e", " ", "a" >>,
    Str1("N"), Str2("n", " "), Str2(" ", "n"), Str2("e", "."), Str2("U", "K"),
    Str3("n", ",", "n") }

IdentSources ==
  { Ordinal(sg \o ds) : sg \in Signs, ds \in SeqUpTo(IdDigits, MaxIdLen) \ {<< >>} }
  \cup { Ordinal(MaxIntText), Ordinal(MinIntText) }
  \cup { CrossRef(t) : t \in SeqUpTo(IdRunes, MaxIdLen) }
  \cup { CrossRef(DetailString[d]) : d \in Detail }
  \cup { Tag(d) : d \in Detail }
  \cup { Remark(t) : t \in Remarks }

NoIdent == Remark(<< >>)
NoIdentReturn == [class |-> "none", identifier |-> << >>]

(* A key is written from a description of it: its forms, the spaces after  *)
(* them and its readings, or none; or it is written rune by rune.          *)

MaxKeyToks == 2
MaxKeyLen == 5

\* Forms and readings without ";", " ", "[" and "]"; the odd ones hold
\* white space that is no space.
KeyTokens == { << >>, Str1("A"), Str1("b") }
OddKeyTokens == { Str1("\t"), Str2("\t", "A"), Str2("A", "\t") }
KeyRunes == { "A", ";", " ", "[", "]" }

FormsKey(forms, spaces, readings) ==
  [raw |-> FALSE, text |-> << >>, forms |-> forms, spaces |-> spaces,
   readings |-> readings]

RawKey(text) ==
  [raw |-> TRUE, text |-> text, forms |-> << >>, spaces |-> 0, readings |-> << >>]

RenderKey(src) ==
  IF src.raw THEN src.text
  ELSE Join(src.forms, << ";" >>)
       \o (IF src.readings = << >> THEN << >>
           ELSE [i \in 1..src.spaces |-> " "] \o << "[" >>
                \o Join(src.readings, << ";" >>) \o << "]" >>)

\* Keys of TestParseKey, longer than the keys written rune by rune.
TestKeys ==
  { << "A", ";", "B", " ", "[", "C" >>,
    << "A", ";", "B", " ", " ", "[", "C", ";", "D", "]" >>,
    << "A", ";", "B", ";", "C", " ", "[", "x", ";", "y", ";", "z", "]" >> }

KeySources ==
  { FormsKey(f, n, r) : f \in SeqUpTo(KeyTokens, MaxKeyToks) \ {<< >>},
                        n \in 1..2, r \in SeqUpTo(KeyTokens, MaxKeyToks) }
  \cup { FormsKey(<< f >>, 1, r) : f \in OddKeyTokens,
                                   r \in { << >>, << Str1("A") >> } }
  \cup { RawKey(t) : t \in SeqUpTo(KeyRunes, MaxKeyLen) \cup TestKeys }

NoKey == RawKey(<< >>)

NoKeyReturn == [kanji |-> << >>, kana |-> << >>, err |-> NoErr]

-----------------------------------------------------------------------------

VARIABLES
  first,    \* Parse: the number of lines read before the first modelled one
  lines,    \* Parse: the lines scanner.Text() has delivered since, in order
  line,     \* Parse: the line counter
  result,   \* Parse: the Entries appended since the first modelled line
  err,      \* Parse: the error returned
  pc,       \* Parse: "scanning", "returned" or "panicked"
  gsrc,     \* parseGloss: the description the gloss was written from
  gloss,    \* parseGloss: the gloss, after TrimSpace
  gi,       \* parseGloss: the number of runes the loop has consumed
  gm,       \* parseGloss: state, captured, defcapture, details, xrefs, err
  gret,     \* parseGloss: the values returned
  gpc,      \* parseGloss: "idle", "scan" or "done"
  lsrc,     \* parseLine: the description the line was written from
  lret,     \* parseLine: its outcome
  lpc,      \* parseLine: "idle", "call" or "done"
  isrc,     \* parseIdentifier: the string it is given
  iret,     \* parseIdentifier: the values returned
  ipc,      \* parseIdentifier: "idle", "call" or "done"
  ksrc,     \* parseKey: the description the key was written from
  key,      \* parseKey: the key, after TrimSpace
  ki,       \* parseKey: the number of runes the loop has consumed
  km,       \* parseKey: state, capture, kanji, kana
  kret,     \* parseKey: the values returned
  kpc       \* parseKey: "idle", "scan" or "done"

parseVars == << first, lines, line, result, err, pc >>
lineVars == << lsrc, lret, lpc >>
glossVars == << gsrc, gloss, gi, gm, gret, gpc >>
identVars == << isrc, iret, ipc >>
keyVars == << ksrc, key, ki, km, kret, kpc >>
vars == << first, lines, line, result, err, pc, gsrc, gloss, gi, gm, gret, gpc,
          lsrc, lret, lpc, isrc, iret, ipc, ksrc, key, ki, km, kret, kpc >>

ParseIdle ==
  /\ first = 0 /\ lines = << >> /\ line = 0 /\ result = << >> /\ err = NilError
  /\ pc = "idle"

LineIdle ==
  /\ lsrc = NoLine /\ lret = Returned(NoErr, EmptyEntry) /\ lpc = "idle"

GlossIdle ==
  /\ gsrc = NoGloss /\ gloss = << >> /\ gi = 0 /\ gm = GlossStart
  /\ gret = NoGlossReturn /\ gpc = "idle"

IdentIdle ==
  /\ isrc = NoIdent /\ iret = NoIdentReturn /\ ipc = "idle"

KeyIdle ==
  /\ ksrc = NoKey /\ key = << >> /\ ki = 0 /\ km = KeyStart
  /\ kret = NoKeyReturn /\ kpc = "idle"

-----------------------------------------------------------------------------
(* parseGloss, rune by rune. *)

GlossInit ==
  /\ gsrc \in GlossSources
  /\ gloss = TrimSpace(RenderGloss(gsrc))
  /\ gi = 0
  /\ gm = GlossStart
  /\ gret = NoGlossReturn
  /\ gpc = "scan"
  /\ ParseIdle
  /\ LineIdle
  /\ IdentIdle
  /\ KeyIdle

\* One iteration of "for i, c := range gloss".
GlossRune ==
  /\ gpc = "scan"
  /\ gi < Len(gloss)
  /\ gm' = GlossStep(gm, gloss[gi + 1])
  /\ gi' = gi + 1
  /\ UNCHANGED << gsrc, gloss, gret, gpc, parseVars, lineVars,
                  identVars, keyVars >>

\* The end of the loop and the return.
GlossEnd ==
  /\ gpc = "scan"
  /\ gi = Len(gloss)
  /\ gret' = GlossReturn(gm)
  /\ gpc' = "done"
  /\ UNCHANGED << gsrc, gloss, gi, gm, parseVars, lineVars,
                  identVars, keyVars >>

GlossNext == GlossRune \/ GlossEnd

SpecGloss == GlossInit /\ [][GlossNext]_vars

-----------------------------------------------------------------------------
(* parseLine, applied to one line. *)

LineInit ==
  /\ lsrc \in LineSources
  /\ lret = Returned(NoErr, EmptyEntry)
  /\ lpc = "call"
  /\ ParseIdle
  /\ GlossIdle
  /\ IdentIdle
  /\ KeyIdle

LineCall ==
  /\ lpc = "call"
  /\ lret' = parseLine(RenderLine(lsrc))
  /\ lpc' = "done"
  /\ UNCHANGED << lsrc, parseVars, glossVars, identVars, keyVars >>

LineNext == LineCall

SpecLine == LineInit /\ [][LineNext]_vars

-----------------------------------------------------------------------------
(* parseIdentifier, applied to one string. *)

IdentInit ==
  /\ isrc \in IdentSources
  /\ iret = NoIdentReturn
  /\ ipc = "call"
  /\ ParseIdle
  /\ LineIdle
  /\ GlossIdle
  /\ KeyIdle

IdentCall ==
  /\ ipc = "call"
  /\ iret' = parseIdentifier(RenderToken(isrc))
  /\ ipc' = "done"
  /\ UNCHANGED << isrc, parseVars, lineVars, glossVars, keyVars >>

IdentNext == IdentCall

SpecIdent == IdentInit /\ [][IdentNext]_vars

-----------------------------------------------------------------------------
(* parseKey, rune by rune. *)

KeyInit ==
  /\ ksrc \in KeySources
  /\ key = TrimSpace(RenderKey(ksrc))
  /\ ki = 0
  /\ km = KeyStart
  /\ kret = NoKeyReturn
  /\ kpc = "scan"
  /\ ParseIdle
  /\ LineIdle
  /\ GlossIdle
  /\ IdentIdle

\* One iteration of "for _, c := range key".
KeyRune ==
  /\ kpc = "scan"
  /\ ki < Len(key)
  /\ km' = KeyStep(km, key[ki + 1])
  /\ ki' = ki + 1
  /\ UNCHANGED << ksrc, key, kret, kpc, parseVars, lineVars, glossVars,
               identVars >>

\* The end of the loop and the return.
KeyEnd ==
  /\ kpc = "scan"
  /\ ki = Len(key)
  /\ kret' = KeyReturn(km)
  /\ kpc' = "done"
  /\ UNCHANGED << ksrc, key, ki, km, parseVars, lineVars, glossVars,
               identVars >>

KeyNext == KeyRune \/ KeyEnd

SpecKey == KeyInit /\ [][KeyNext]_vars

-----------------------------------------------------------------------------
(* Parse, one iteration of its loop at a time.  The model follows Parse    *)
(* over at most MaxLines lines, from the first line of the input or from   *)
(* two lines before a blacklisted line.  Parse only appends to result and  *)
(* never reads it, so result holds the Entries appended since the first    *)
(* modelled line; the Entries of the lines before it are left out.         *)

Starts == {0} \cup {b - 2 : b \in blacklist}

Init ==
  /\ first \in Starts
  /\ line = first
  /\ lines = << >>
  /\ result = << >>
  /\ err = NilError
  /\ pc = "scanning"
  /\ GlossIdle
  /\ LineIdle
  /\ IdentIdle
  /\ KeyIdle

\* A variant that goes on to the next line after any failure.
ScanBodyGoesOn(text, r) ==
  /\ lines' = Append(lines, text)
  /\ line' = line + 1
  /\ IF r.panic
       THEN pc' = "panicked" /\ UNCHANGED << result, err >>
     ELSE IF r.err # NoErr
       THEN UNCHANGED << result, err, pc >>
     ELSE /\ result' = Append(result, r.result)
          /\ UNCHANGED << err, pc >>

\* A variant that does not count a line it skips.
ScanBodySkipUncounted(text, r) ==
  /\ lines' = Append(lines, text)
  /\ IF r.panic
       THEN line' = line + 1 /\ pc' = "panicked" /\ UNCHANGED << result, err >>
     ELSE IF r.err # NoErr
       THEN IF KnownBad(line + 1)
              THEN UNCHANGED << line, result, err, pc >>
              ELSE /\ line' = line + 1
                   /\ err' = ParseError(line + 1, r.err)
                   /\ pc' = "returned"
                   /\ UNCHANGED result
     ELSE /\ line' = line + 1
          /\ result' = AppendEntry(result, r.result)
          /\ UNCHANGED << err, pc >>

\* A variant that looks the number of the line up before the line is
\* parsed.
ScanBodySkipsFirst(text, r) ==
  /\ lines' = Append(lines, text)
  /\ line' = line + 1
  /\ IF KnownBad(line + 1)
       THEN UNCHANGED << result, err, pc >>
     ELSE IF r.panic
       THEN pc' = "panicked" /\ UNCHANGED << result, err >>
     ELSE IF r.err # NoErr
       THEN /\ err' = ParseError(line + 1, r.err)
            /\ pc' = "returned"
            /\ UNCHANGED result
     ELSE /\ result' = AppendEntry(result, r.result)
          /\ UNCHANGED << err, pc >>

\* The body of the loop, for the line text that parseLine answered with r.
ScanBody(text, r) ==
  /\ lines' = Append(lines, text)
  /\ line' = line + 1
  /\ IF r.panic
       THEN pc' = "panicked" /\ UNCHANGED << result, err >>
     ELSE IF r.err # NoErr
       THEN IF KnownBad(line + 1)
              THEN UNCHANGED << result, err, pc >>
              ELSE /\ err' = ParseError(line + 1, r.err)
                   /\ pc' = "returned"
                   /\ UNCHANGED result
     ELSE /\ result' = AppendEntry(result, r.result)
          /\ UNCHANGED << err, pc >>

\* scanner.Scan() delivers a line.
Scan ==
  /\ pc = "scanning"
  /\ Len(lines) < MaxLines
  /\ \E text \in ParseLines : ScanBody(text, parseLine(text))
  /\ UNCHANGED << first, glossVars, lineVars, identVars, keyVars >>

\* scanner.Scan() is false at the end of the input: scanner.Err() is nil.
ScanEOF ==
  /\ pc = "scanning"
  /\ pc' = "returned"
  /\ UNCHANGED << first, lines, line, result, err, glossVars, lineVars,
                  identVars, keyVars >>

\* scanner.Scan() is false because the read failed: scanner.Err() is not nil.
ScanError ==
  /\ pc = "scanning"
  /\ err' = PastEOFError(line)
  /\ pc' = "returned"
  /\ UNCHANGED << first, lines, line, result, glossVars, lineVars,
                  identVars, keyVars >>

Next == Scan \/ ScanEOF \/ ScanError

Spec == Init /\ [][Next]_vars

-----------------------------------------------------------------------------
(* Properties of Parse, checked under Spec. *)

Accepts(text) == LET r == parseLine(text) IN ~r.panic /\ r.err = NoErr
Refuses(text) == LET r == parseLine(text) IN ~r.panic /\ r.err # NoErr

\* The Entries of the lines of ls that parseLine accepts, in the order of ls.
RECURSIVE AcceptedEntries(_)
AcceptedEntries(ls) ==
  IF ls = << >> THEN << >>
  ELSE (IF Accepts(Head(ls)) THEN << parseLine(Head(ls)).result >> ELSE << >>)
       \o AcceptedEntries(Tail(ls))

\* The number of the i-th modelled line.
LineNumber(i) == first + i

\* C1: when Parse returns after reading N lines that parseLine all accepts,
\* and the line source did not fail, it returns no error and exactly N
\* Entries, the i-th being parseLine's Entry for the i-th line.
C1_ParseKeepsOrder ==
  (/\ pc = "returned"
   /\ err.kind # "past EOF"
   /\ \A i \in 1..Len(lines) : Accepts(lines[i]))
  => /\ err = NilError
     /\ Len(result) = Len(lines)
     /\ \A i \in 1..Len(lines) : result[i] = parseLine(lines[i]).result

C1_Witness ==
  /\ pc = "returned"
  /\ err = NilError
  /\ Len(lines) >= 2
  /\ \A i \in 1..Len(lines) : Accepts(lines[i])
  /\ lines[1] # lines[2]
  /\ Len(result) = Len(lines)

\* C2: a line that parseLine refuses and whose number is in blacklist gives
\* no Entry and no error, Parse does not stop at it, and result holds the
\* Entries of all the accepted lines read, in input order.
C2_BlacklistedLineSkipped ==
  \A i \in 1..Len(lines) :
    (Refuses(lines[i]) /\ LineNumber(i) \in blacklist)
    => /\ ~(err.kind = "parse" /\ err.line = LineNumber(i))
       /\ i = Len(lines) => (pc \in {"scanning", "returned"} /\ err.kind # "parse")
       /\ pc # "panicked" => result = AcceptedEntries(lines)

C2_Witness ==
  /\ pc = "returned"
  /\ err = NilError
  /\ \E i \in 1..(Len(lines) - 1) :
       /\ Refuses(lines[i])
       /\ LineNumber(i) \in blacklist
       /\ Accepts(lines[i + 1])
       /\ result # << >>
       /\ result[Len(result)] = parseLine(lines[i + 1]).result

\* C3: at the first line that parseLine refuses and whose number is not in
\* blacklist, Parse stops: it is the last line read, the Entries returned
\* are those of the accepted lines before it, in order, and the one error
\* returned is the parse error of that line.
C3_StopsAtFirstFailure ==
  \A i \in 1..Len(lines) :
    (Refuses(lines[i]) /\ LineNumber(i) \notin blacklist)
    => /\ i = Len(lines)
       /\ pc = "returned"
       /\ err = ParseError(LineNumber(i), parseLine(lines[i]).err)
       /\ result = AcceptedEntries(SubSeq(lines, 1, i - 1))

C3_Witness ==
  /\ pc = "returned"
  /\ err.kind = "parse"
  /\ Len(lines) >= 2
  /\ Refuses(lines[Len(lines)])
  /\ LineNumber(Len(lines)) \notin blacklist
  /\ Len(result) = Len(lines) - 1

-----------------------------------------------------------------------------
(* Properties of parseLine, checked under SpecLine. *)

Range(f) == {f[i] : i \in DOMAIN f}

\* The annotations and the cross-reference targets among tokens, in order.
RECURSIVE Details(_)
Details(toks) ==
  IF toks = << >> THEN << >>
  ELSE (IF Head(toks).kind = "detail" THEN << Head(toks).val >> ELSE << >>)
       \o Details(Tail(toks))

RECURSIVE Xrefs(_)
Xrefs(toks) ==
  IF toks = << >> THEN << >>
  ELSE (IF Head(toks).kind = "xref" THEN << Head(toks).val >> ELSE << >>)
       \o Xrefs(Tail(toks))

RECURSIVE NonCommon(_)
NonCommon(fields) ==
  IF fields = << >> THEN << >>
  ELSE (IF Head(fields).common THEN << >> ELSE << Head(fields) >>)
       \o NonCommon(Tail(fields))

\* One Common for each "(P)" field.
RECURSIVE Commons(_)
Commons(fields) ==
  IF fields = << >> THEN << >>
  ELSE (IF Head(fields).common THEN << "Common" >> ELSE << >>)
       \o Commons(Tail(fields))

LineReturned == lpc = "done" /\ ~lret.panic
LineAccepted == LineReturned /\ lret.err = NoErr

\* C4: parseLine ends by returning an Entry or an error on every line; it
\* never aborts on an index out of range.
C4_NeverAborts == lpc = "done" => ~lret.panic

\* C5: an accepted line whose Entry holds exactly one Gloss has that
\* Gloss's Information empty, and the annotations that led its field are in
\* the Entry's Information.
C5_SingleGlossPromoted ==
  (LineAccepted /\ Len(lret.result.Gloss) = 1)
  => /\ lret.result.Gloss[1].Information = << >>
     /\ ~lsrc.raw =>
          \A i \in 1..Len(lsrc.fields) :
            ~lsrc.fields[i].common =>
              Range(Details(lsrc.fields[i].pre \o lsrc.fields[i].toks))
                \subseteq Range(lret.result.Information)

\* The number of times the marker "(1)" is written in a field.
MarkerCount(f) ==
  (IF f.marker THEN 1 ELSE 0) + (IF Index(f.text, TheMarker) # 0 THEN 1 ELSE 0)

\* The tokens written before the first marker of a field, the tokens
\* written after it, and the text after it and them.
BeforeMarker(f) == IF f.marker THEN f.pre ELSE f.pre \o f.toks
AfterMarker(f) == IF f.marker THEN f.toks ELSE << >>
TextAfterMarker(f) ==
  IF f.marker THEN f.text
  ELSE SubSeq(f.text, Index(f.text, TheMarker) + Len(TheMarker), Len(f.text))

\* The Gloss of a field: its text, and the annotations and cross-references
\* of the given tokens.
GlossOf(toks, text) ==
  [Definition |-> TrimSpace(text), Information |-> Details(toks), Xref |-> Xrefs(toks)]

\* What C6 says of an accepted line written from src.
RedistributedAtMarker(src, entry) ==
  LET senses == NonCommon(src.fields)
      f1 == senses[1]
  IN  /\ entry.Information = Details(BeforeMarker(f1)) \o Commons(src.fields)
      /\ Len(entry.Gloss) = Len(senses)
      /\ entry.Gloss[1] = GlossOf(AfterMarker(f1), TextAfterMarker(f1))
      /\ \A j \in 2..Len(senses) :
           entry.Gloss[j] = GlossOf(senses[j].toks, senses[j].text)

MultiSense(src) ==
  /\ ~src.raw
  /\ Len(NonCommon(src.fields)) > 1
  /\ ~src.fields[1].common

C7_AtLeastOneGloss == LineAccepted => Len(lret.result.Gloss) >= 1

\* The number of times each element occurs in a sequence.
BagOfSeq(q) == [x \in Range(q) |-> Cardinality({i \in DOMAIN q : q[i] = x})]

\* The annotations leading the gloss fields of a line, Common for "(P)".
RECURSIVE LeadingDetails(_)
LeadingDetails(fields) ==
  IF fields = << >> THEN << >>
  ELSE (IF Head(fields).common THEN << "Common" >>
        ELSE Details(Head(fields).pre \o Head(fields).toks))
       \o LeadingDetails(Tail(fields))

RECURSIVE GlossDetails(_)
GlossDetails(glosses) ==
  IF glosses = << >> THEN << >>
  ELSE Head(glosses).Information \o GlossDetails(Tail(glosses))

\* C8: on an accepted line, every annotation leading a gloss field, and the
\* Common of every "(P)" field, is once in the Entry's Information or once
\* in the Information of one Gloss: none is lost, none is in both.
C8_DetailsPartitioned ==
  (LineAccepted /\ ~lsrc.raw)
  => BagOfSeq(lret.result.Information \o GlossDetails(lret.result.Gloss))
       = BagOfSeq(LeadingDetails(lsrc.fields))

C8_Witness ==
  /\ LineAccepted
  /\ ~lsrc.raw
  /\ lret.result.Information # << >>
  /\ \E j \in 1..Len(lret.result.Gloss) : lret.result.Gloss[j].Information # << >>
  /\ \E i \in 1..Len(lsrc.fields) : lsrc.fields[i].common

-----------------------------------------------------------------------------
(* Properties of parseGloss, checked under SpecGloss. *)

\* A gloss of parenthesized tokens, each an integer, a cross-reference or
\* an annotation code, each followed by exactly one space, then a non-empty
\* text that does not start with "(".
TaggedGloss(src) ==
  /\ \A i \in 1..Len(src.toks) :
       ~src.joined[i] /\ src.toks[i].kind \in {"int", "xref", "detail"}
  /\ src.gap = << " " >>
  /\ src.text # << >>
  /\ Head(src.text) # "("

ExpectedGloss(src) ==
  [def |-> src.text, details |-> Details(src.toks), xrefs |-> Xrefs(src.toks),
   err |-> NoErr]

\* C9 as stated: parseGloss succeeds on such a gloss with the text as the
\* definition, the codes' annotations and the cross-reference targets in
\* the order met, and the integers dropped.
C9_AnyText == (gpc = "done" /\ TaggedGloss(gsrc)) => gret = ExpectedGloss(gsrc)

\* The text neither ends with white space nor, when no token precedes it,
\* starts with white space.
Trimmed(src) ==
  /\ src.text[Len(src.text)] \notin WhiteSpace
  /\ src.toks = << >> => Head(src.text) \notin WhiteSpace

\* Every integer has fewer digits than 2^63, so it fits a 64-bit int, and
\* no cross-reference target holds a ")".
PlainTokens(src) ==
  \A i \in 1..Len(src.toks) :
    /\ src.toks[i].kind = "int" => Len(src.toks[i].val) < Len(MaxInt64)
    /\ src.toks[i].kind = "xref" => ")" \notin Range(src.toks[i].val)

\* C9, amended: the same, for a text that TrimSpace leaves whole, integers
\* that fit a 64-bit int and cross-reference targets without ")".
C9_TrimmedText ==
  (gpc = "done" /\ TaggedGloss(gsrc) /\ Trimmed(gsrc) /\ PlainTokens(gsrc))
  => gret = ExpectedGloss(gsrc)

\* C9 with only the text as amended: an integer too large for an int is
\* kept as text, and a ")" in a target ends the parenthetical.
C9_OddTokens ==
  (gpc = "done" /\ TaggedGloss(gsrc) /\ Trimmed(gsrc)) => gret = ExpectedGloss(gsrc)

C9_Witness ==
  /\ gpc = "done"
  /\ TaggedGloss(gsrc)
  /\ Trimmed(gsrc)
  /\ PlainTokens(gsrc)
  /\ Len(gsrc.toks) = 2
  /\ gret.details = << "UK", "N" >>
  /\ gret.def = << "f" >>

\* A gloss of one parenthetical of annotation codes joined by commas,
\* followed by one space and a text.
GroupedGloss(src) ==
  /\ Len(src.toks) >= 1
  /\ \A i \in 1..Len(src.toks) : src.toks[i].kind = "detail" /\ (i > 1 => src.joined[i])
  /\ src.gap = << " " >>

\* C10: parseGloss returns for "(a1,...,an) T" what it returns for
\* "(a1) ... (an) T".
C10_GroupedAsSeparate ==
  (gpc = "done" /\ GroupedGloss(gsrc))
  => gret = parseGloss(RenderGloss(Separate(gsrc)))

C10_Witness ==
  /\ gpc = "done"
  /\ GroupedGloss(gsrc)
  /\ Len(gsrc.toks) = 2
  /\ gret.err = NoErr
  /\ gret.details = << "N", "UK" >>
  /\ gret.def = << "f" >>

\* The tokens are integers that fit an int, cross-references without ")"
\* and annotation codes.
TagTokens(src) ==
  /\ \A i \in 1..Len(src.toks) : src.toks[i].kind \in {"int", "xref", "detail"}
  /\ PlainTokens(src)

\* The gloss is empty once trimmed.
EmptyGloss(src) == TrimSpace(RenderGloss(src)) = << >>

\* A token is joined by a comma to an annotation code only: after any
\* other token the comma is no separator.
JoinedToCodes(src) ==
  \A i \in 1..Len(src.toks) : src.joined[i] => src.toks[i - 1].kind = "detail"

\* Tags, each followed by one space at most, and no text after the last of
\* them.  (After two spaces the machine is in definitionGS, and what
\* follows is text to it.)
TagsOnly(src) ==
  /\ Len(src.toks) >= 1
  /\ TagTokens(src)
  /\ JoinedToCodes(src)
  /\ Len(src.gap) <= 1
  /\ src.text = << >>

\* Tags, each followed by one space, and then a parenthetical that is
\* never closed.
Unterminated(src) ==
  /\ TagTokens(src)
  /\ \A i \in 1..Len(src.toks) : ~src.joined[i]
  /\ src.gap = << " " >>
  /\ src.text = << "(", "n" >>

\* C11: parseGloss returns an error whenever its loop ends in a state
\* other than definitionGS, and it returns one for the empty gloss, for a
\* gloss of tags only and for a gloss that ends inside a parenthetical.
C11_FailsOutsideDefinition ==
  gpc = "done"
  => /\ gm.state # "definitionGS" => gret.err # NoErr
     /\ (EmptyGloss(gsrc) \/ TagsOnly(gsrc) \/ Unterminated(gsrc))
          => gret.err # NoErr

C11_Witness ==
  /\ gpc = "done"
  /\ Unterminated(gsrc)
  /\ Len(gsrc.toks) = 1
  /\ gm.state = "captureGS"
  /\ gm.err = NoErr
  /\ gret.err = "not in definition state"

\* The state the loop is in when it reads the i-th rune of the gloss.
StateAt(i) == GlossRun(GlossStart, SubSeq(gloss, 1, i - 1)).state

\* The runes read so far hold one, other than a space, read in closedGS.
ReadAfterClose == \E i \in 1..gi : StateAt(i) = "closedGS" /\ gloss[i] # " "

\* C12: once a character other than a space has been read in closedGS the
\* error is set whatever is read next, and the call returns an error, in
\* whatever state the loop ends.
C12_ErrorAfterCloseSticks ==
  ReadAfterClose => (gm.err # NoErr /\ (gpc = "done" => gret.err # NoErr))

C12_Witness ==
  /\ gpc = "done"
  /\ ReadAfterClose
  /\ gm.state = "definitionGS"
  /\ gm.defcapture = << "f" >>
  /\ gret.err = "closed"

\* The i-th token is the first of free text; it opens a parenthetical of
\* its own, and the tokens before it are tags, each in a parenthetical of
\* its own followed by one space.
FirstRemarkAt(src, i) ==
  /\ src.toks[i].kind = "text"
  /\ ~src.joined[i]
  /\ \A j \in 1..(i - 1) :
       /\ src.toks[j].kind \in {"int", "xref", "detail"}
       /\ ~src.joined[j]
  /\ PlainTokens(src)
  /\ i > 1 => src.gap = << " " >>

\* What the gloss is from the i-th parenthetical on, as written.
WrittenFrom(src, i) == TrimRight(RenderToks(src.toks, src.joined, src.gap, i) \o src.text)

\* C13: a parenthetical of free text goes to the definition in its
\* parentheses, and so does everything after it as written: the later
\* parentheticals add no annotation and no cross-reference.
C13_RemarkStartsDefinition ==
  gpc = "done"
  => \A i \in 1..Len(gsrc.toks) :
       FirstRemarkAt(gsrc, i)
       => gret = [def |-> WrittenFrom(gsrc, i),
                  details |-> Details(SubSeq(gsrc.toks, 1, i - 1)),
                  xrefs |-> Xrefs(SubSeq(gsrc.toks, 1, i - 1)),
                  err |-> NoErr]

C13_Witness ==
  /\ gpc = "done"
  /\ Len(gsrc.toks) = 2
  /\ FirstRemarkAt(gsrc, 1)
  /\ gsrc.toks[2] = Tag("N")
  /\ gm.state = "definitionGS"
  /\ gret.details = << >>
  /\ gret.def = << "(", "e", ".", ")", " ", "(", "n", ")", " ", "f" >>

\* The step, taken in definitionGS, stays there, appends the rune it reads
\* (if it reads one) to the definition and to nothing else.
StaysInDefinition ==
  gm.state = "definitionGS"
  => /\ gm'.state = "definitionGS"
     /\ gm'.details = gm.details
     /\ gm'.xrefs = gm.xrefs
     /\ gm'.captured = gm.captured
     /\ gm'.defcapture = IF gi' = gi + 1 THEN Append(gm.defcapture, gloss[gi + 1])
                                         ELSE gm.defcapture

\* C14: from definitionGS every step of parseGloss leads to definitionGS,
\* with the rune read appended to the definition as it is and the
\* annotations and the cross-references as they were.
C14_DefinitionIsFinal == [][StaysInDefinition]_vars

\* A ")" has been read in definitionGS, after an annotation was found.
C14_Witness ==
  /\ gi >= 1
  /\ StateAt(gi) = "definitionGS"
  /\ gloss[gi] = ")"
  /\ gm.details = << "N" >>
  /\ gm.defcapture = << "f", " ", "(", "n", ")" >>

\* The step that reads a comma in captureGS after a token that is no
\* annotation code appends the comma to the token and changes nothing else.
CommaKept ==
  (/\ gm.state = "captureGS"
   /\ gi' = gi + 1
   /\ gloss[gi + 1] = ","
   /\ parseIdentifier(gm.captured).class # "detail")
  => gm' = [gm EXCEPT !.captured = Append(gm.captured, ",")]

\* The gloss starts with a parenthetical of one cross-reference, whose
\* target holds a comma (and no ")").
CommaInTarget(src) ==
  /\ Len(src.toks) >= 1
  /\ \A i \in 2..Len(src.toks) : i = 2 => ~src.joined[i]
  /\ src.toks[1].kind = "xref"
  /\ "," \in Range(src.toks[1].val)
  /\ ")" \notin Range(src.toks[1].val)

\* C15: in a parenthetical a comma after an integer, a cross-reference or
\* free text is kept as a character of the token, and a cross-reference
\* target that holds commas is returned whole, as one cross-reference.
C15_CommaKeptInToken ==
  /\ [][CommaKept]_vars
  /\ []((gpc = "done" /\ CommaInTarget(gsrc))
          => (gret.xrefs # << >> /\ gret.xrefs[1] = gsrc.toks[1].val))

\* "(See a,b) f"
C15_Witness ==
  /\ gpc = "done"
  /\ gsrc.toks = << CrossRef(Str3("a", ",", "b")) >>
  /\ gsrc.gap = << " " >>
  /\ gsrc.text = << "f" >>
  /\ gret = [def |-> << "f" >>, details |-> << >>,
             xrefs |-> << Str3("a", ",", "b") >>, err |-> NoErr]

-----------------------------------------------------------------------------
(* Properties of parseIdentifier and of the annotation table, checked      *)
(* under SpecIdent.                                                        *)

\* The class and the data of a string, from what it was written as.
ExpectedIdent(t) ==
  CASE t.kind = "int" -> [class |-> "none", identifier |-> << >>]
    [] t.kind = "xref" -> [class |-> "xref", identifier |-> t.val]
    [] t.kind = "detail" -> [class |-> "detail", identifier |-> DetailString[t.val]]
    [] OTHER -> [class |-> "text", identifier |-> t.val]

\* C16: parseIdentifier gives every string one class, which depends on the
\* string alone: an integer is an ordinal without data, otherwise "See "
\* and a target is a cross-reference to the target, otherwise a code of
\* the table is that annotation, otherwise the string is free text and
\* is returned as it is.
C16_OneClassInOrder ==
  ipc = "done"
  => /\ iret = ExpectedIdent(isrc)
     /\ \A t \in IdentSources :
          RenderToken(t) = RenderToken(isrc) => ExpectedIdent(t) = iret

\* "See n" is a cross-reference to "n", not the annotation "n".
C16_Witness ==
  /\ ipc = "done"
  /\ isrc = CrossRef(DetailString["N"])
  /\ iret = [class |-> "xref", identifier |-> DetailString["N"]]

\* C17: DetailFor maps the code of every annotation of DetailString back
\* to that annotation (so a code that parseIdentifier finds in DetailFor
\* is the code of the annotation stored there), no two annotations have
\* the same code, and DetailFor has as many entries as DetailString.
C17_TablesAreInverse ==
  /\ (ipc = "done" /\ isrc.kind = "detail")
       => (iret.class = "detail" /\ DetailFor[iret.identifier] = isrc.val)
  /\ ipc = "done"
       => /\ \A A \in DOMAIN DetailString :
               /\ DetailString[A] \in DOMAIN DetailFor
               /\ DetailFor[DetailString[A]] = A
          /\ \A A, B \in DOMAIN DetailString :
               DetailString[A] = DetailString[B] => A = B
          /\ Cardinality(DOMAIN DetailFor) = Cardinality(DOMAIN DetailString)

\* The code "uk" has been looked up in DetailFor and is the code of UK.
C17_Witness ==
  /\ ipc = "done"
  /\ isrc = Tag("UK")
  /\ iret.class = "detail"
  /\ DetailFor[iret.identifier] = "UK"
  /\ DetailString[DetailFor[iret.identifier]] = iret.identifier

-----------------------------------------------------------------------------
(* Properties of parseKey, checked under SpecKey. *)

\* The forms and the readings the key was written from, and no error.
ExpectedKey(src) == [kanji |-> src.forms, kana |-> src.readings, err |-> NoErr]

\* C18 as stated: parseKey returns the forms and the readings of every key
\* written as the forms joined by ";" and, if there are readings, one or
\* more spaces and the readings joined by ";" in brackets.
C18_AnyForms == (kpc = "done" /\ ~ksrc.raw) => kret = ExpectedKey(ksrc)

\* TrimSpace leaves the key whole: the joined forms do not start with
\* white space, they are not empty when spaces and readings follow, and
\* they do not end with white space when nothing follows.
FormsStayWhole(src) ==
  LET joined == Join(src.forms, << ";" >>)
  IN  /\ joined # << >> => Head(joined) \notin WhiteSpace
      /\ src.readings # << >> => joined # << >>
      /\ (src.readings = << >> /\ joined # << >>)
           => joined[Len(joined)] \notin WhiteSpace

\* C18, amended: the same, for forms that TrimSpace leaves whole.
C18_WholeForms ==
  (kpc = "done" /\ ~ksrc.raw /\ FormsStayWhole(ksrc)) => kret = ExpectedKey(ksrc)

\* "A;b  [b;A]"
C18_Witness ==
  /\ kpc = "done"
  /\ ksrc = FormsKey(<< Str1("A"), Str1("b") >>, 2, << Str1("b"), Str1("A") >>)
  /\ kret = [kanji |-> << Str1("A"), Str1("b") >>,
             kana |-> << Str1("b"), Str1("A") >>, err |-> NoErr]

\* The key is forms, one space and an opening bracket, and no "]" after
\* that.
OpenBracket(src) ==
  \E i \in 3..Len(src.text) :
    /\ src.text[i] = "["
    /\ src.text[i - 1] = " "
    /\ \A j \in 1..(i - 2) : src.text[j] \notin {" ", "[", "]"}
    /\ \A j \in (i + 1)..Len(src.text) : src.text[j] # "]"

\* C19: parseKey returns an error for every key whose loop ends in kanaKS,
\* a reading still being accumulated, and there it ends for an opening
\* bracket that is never closed.
C19_FailsInsideBracket ==
  kpc = "done"
  => /\ km.state = "kanaKS" => kret.err # NoErr
     /\ (ksrc.raw /\ OpenBracket(ksrc))
          => (km.state = "kanaKS" /\ kret.err # NoErr)

\* "A;B [C"
C19_Witness ==
  /\ kpc = "done"
  /\ ksrc.raw
  /\ ksrc.text = << "A", ";", "B", " ", "[", "C" >>
  /\ km.state = "kanaKS"
  /\ km.capture = << "C" >>
  /\ kret = [kanji |-> << Str1("A"), Str1("B") >>, kana |-> << >>,
             err |-> "not in done or space state"]

\* The entry has no ";", no "[" or "]", and no space first or last.
CleanEntry(e) ==
  /\ \A i \in 1..Len(e) : e[i] \notin {";", "[", "]"}
  /\ e # << >> => (Head(e) # " " /\ e[Len(e)] # " ")

\* C20: a key that parseKey accepts has one primary form at least, and no
\* primary form and no reading holds a semicolon, a bracket, or a space
\* at its start or end.
C20_CleanEntries ==
  (kpc = "done" /\ kret.err = NoErr)
  => /\ kret.kanji # << >>
     /\ \A i \in 1..Len(kret.kanji) : CleanEntry(kret.kanji[i])
     /\ \A i \in 1..Len(kret.kana) : CleanEntry(kret.kana[i])

\* C21 as stated: parseKey returns no error exactly when its loop ends in
\* kanjiKS (the pending form is then flushed) or in doneKS with an empty
\* capture; in spaceKS, in kanaKS, or with runes left in capture, it
\* returns one.
C21_KanjiOrDoneOnly ==
  kpc = "done"
  => (kret.err = NoErr
        <=> \/ km.state = "kanjiKS"
            \/ km.state = "doneKS" /\ km.capture = << >>)

\* C21, amended: the same, with spaceKS and an empty capture a success
\* too.
C21_KanjiSpaceOrDone ==
  kpc = "done"
  => (kret.err = NoErr
        <=> \/ km.state = "kanjiKS"
            \/ km.state \in {"doneKS", "spaceKS"} /\ km.capture = << >>)

\* "A ;" ends in spaceKS with an empty capture and is accepted.
C21_Witness ==
  /\ kpc = "done"
  /\ ksrc.raw
  /\ ksrc.text = << "A", " ", ";" >>
  /\ km.state = "spaceKS"
  /\ km.capture = << >>
  /\ kret = [kanji |-> << Str1("A") >>, kana |-> << >>, err |-> NoErr]

\* The step reads a ";".
ReadsSemicolon == kpc = "scan" /\ ki' = ki + 1 /\ key[ki + 1] = ";"

\* The step appends the pending runes to one of the two lists, as its next
\* entry, and starts a new token.
ClosesToken ==
  /\ \/ km'.kanji = Append(km.kanji, km.capture) /\ km'.kana = km.kana
     \/ km'.kana = Append(km.kana, km.capture) /\ km'.kanji = km.kanji
  /\ km'.capture = << >>
  /\ km'.state = km.state

\* C22: a ";" read while a form or a reading is accumulated closes that
\* token in its list, and a ";" read with runes pending, in whatever
\* state, appends them to a list: none drops them.
C22_SemicolonKeepsRunes ==
  [][ReadsSemicolon
       => /\ km.state = "kanjiKS"
               => (ClosesToken /\ km'.kanji = Append(km.kanji, km.capture))
          /\ km.state = "kanaKS"
               => (ClosesToken /\ km'.kana = Append(km.kana, km.capture))
          /\ km.capture # << >> => ClosesToken]_vars

-----------------------------------------------------------------------------
(* More properties of parseLine, checked under SpecLine. *)

\* The elements of the line between its "/"s.
Elements == Split(RenderLine(lsrc), << "/" >>)

\* The string up to its first "(", or the whole of it when it has none.
CutAtParen(s) ==
  LET opens == {i \in 1..Len(s) : s[i] = "("}
  IN  IF opens = {} THEN s
      ELSE SubSeq(s, 1, (CHOOSE i \in opens : \A j \in opens : i <= j) - 1)

\* The tokens are those of the key, each cut at its first "("; none holds
\* a "(", and fixKey leaves each as it is.
FixedTokens(tokens, ofKey) ==
  /\ Len(tokens) = Len(ofKey)
  /\ \A i \in 1..Len(tokens) :
       /\ tokens[i] = CutAtParen(ofKey[i])
       /\ "(" \notin Range(tokens[i])
       /\ fixKey(tokens[i]) = tokens[i]
       /\ fixKey(ofKey[i]) = tokens[i]

\* C23: fixKey returns its argument up to the first "(", and the whole
\* argument when it has none; applied again it changes nothing; and the
\* primary forms and the readings of every Entry parseLine returns are
\* those of the key so cut, none with a "(".
C23_KeysCutAtParen ==
  LineAccepted
  => /\ FixedTokens(lret.result.Kanji, parseKey(Elements[1]).kanji)
     /\ FixedTokens(lret.result.Kana, parseKey(Elements[1]).kana)

\* The form "A((" and a reading with two parentheticals.
C23_Witness ==
  /\ LineAccepted
  /\ ~lsrc.raw
  /\ parseKey(lsrc.key).kanji = << Str3("A", "(", "(") >>
  /\ parseKey(lsrc.key).kana = << << "x", "(", "P", ")", " ", "(", "y", ")" >> >>
  /\ lret.result.Kanji = << Str1("A") >>
  /\ lret.result.Kana = << Str1("x") >>

\* The line as written does not end with "/": it has no closing "/" after
\* its sequence field, or it is written rune by rune and its last rune is
\* not "/".
NotTerminated(src) ==
  IF src.raw THEN src.text # << >> /\ src.text[Len(src.text)] # "/"
             ELSE ~src.closed /\ src.id # << >>

\* C24: on a line that does not end with "/" parseLine returns the error
\* about its last component, and it does so before it looks at anything
\* else: the Entry returned is empty, whatever the key and the other
\* fields are, and the call does not abort on a line of one element.
C24_LastComponentFirst ==
  (lpc = "done" /\ NotTerminated(lsrc))
  => lret = Returned("last component should be blank", EmptyEntry)

\* A line that does not end with "/" and whose key parseKey refuses.
C24_Witness ==
  /\ lpc = "done"
  /\ ~lsrc.raw
  /\ NotTerminated(lsrc)
  /\ parseKey(lsrc.key).err # NoErr
  /\ lret = Returned("last component should be blank", EmptyEntry)

\* The element before the last one, which is the sequence field of a line
\* written from a description.
SequenceElement == Elements[Len(Elements) - 1]

EndsWithMarker(s) == s # << >> /\ s[Len(s)] = "X"

\* C25: the Sequence of an accepted line is its second-to-last element
\* without its last rune if that is "X", and RecordingAvailable says
\* whether it was.
C25_SequenceAndRecording ==
  LineAccepted
  => /\ ~lsrc.raw => SequenceElement = lsrc.id
     /\ lret.result.Sequence =
          IF EndsWithMarker(SequenceElement)
            THEN SubSeq(SequenceElement, 1, Len(SequenceElement) - 1)
            ELSE SequenceElement
     /\ lret.result.RecordingAvailable = EndsWithMarker(SequenceElement)

\* "1XX" gives the Sequence "1X".
C25_Witness ==
  /\ LineAccepted
  /\ ~lsrc.raw
  /\ lsrc.id = Str3("1", "X", "X")
  /\ lret.result.Sequence = Str2("1", "X")
  /\ lret.result.RecordingAvailable

\* The first field of the line was parsed whole: its Gloss has the text of
\* the field as written and every cross-reference of the field, and every
\* annotation of the field is with that Gloss, or with the Entry when the
\* field is the only one.
ParsedWhole(src, entry) ==
  LET f1 == src.fields[1]
  IN  ~f1.common
      => /\ entry.Gloss # << >>
         /\ entry.Gloss[1].Definition = TrimSpace(f1.text)
         /\ entry.Gloss[1].Xref = Xrefs(f1.pre \o f1.toks)
         /\ Details(f1.pre \o f1.toks)
              = IF Len(src.fields) = 1 THEN entry.Information
                                       ELSE entry.Gloss[1].Information

\* C26 as stated: on an accepted line of one or of two definition fields
\* nothing is split off the first field at "(1)": the field is parsed
\* whole.
C26_OneOrTwoFields ==
  (LineAccepted /\ ~lsrc.raw /\ Len(lsrc.fields) \in {1, 2})
  => ParsedWhole(lsrc, lret.result)

\* C26, amended: the same, on a line of one definition field.
C26_OneField ==
  (LineAccepted /\ ~lsrc.raw /\ Len(lsrc.fields) = 1)
  => ParsedWhole(lsrc, lret.result)

\* "A [x] /(n) (1) (uk) f/1/"
C26_Witness ==
  /\ LineAccepted
  /\ ~lsrc.raw
  /\ lsrc.fields = << Field(<< Tag("N") >>, TRUE, << Tag("UK") >>, Str1("f")) >>
  /\ lret.result.Information = << "N", "UK" >>
  /\ lret.result.Gloss =
       << [Definition |-> Str1("f"), Information |-> << >>, Xref |-> << >>] >>

\* A cross-reference is written before the marker of the first field.
XrefBeforeMarker(src) ==
  /\ MultiSense(src)
  /\ src.fields[1].marker
  /\ \E i \in 1..Len(src.fields[1].pre) : src.fields[1].pre[i].kind = "xref"

\* The line failed on the cross-reference: the error is returned and the
\* Entry beside it holds no Gloss and no annotation.
FailedOnGlobalXref ==
  /\ LineReturned
  /\ lret.err = "unexpected xref in global details section"
  /\ lret.result.Gloss = << >>
  /\ lret.result.Information = << >>

\* C27 as stated: a line of more than one sense with a cross-reference
\* before "(1)" in its first field fails with the error of a cross-reference
\* in the entry-wide details, and no Gloss is returned for it.
C27_AnyMarker ==
  (lpc = "done" /\ XrefBeforeMarker(lsrc)) => FailedOnGlobalXref

\* C27, amended: the same, for a first field that contains "(1)" exactly
\* once.
C27_OneMarker ==
  (lpc = "done" /\ XrefBeforeMarker(lsrc) /\ MarkerCount(lsrc.fields[1]) = 1)
  => FailedOnGlobalXref

\* "A [x] /(n) (See a) (1) f/(2) (uk) g/1/"
C27_Witness ==
  /\ FailedOnGlobalXref
  /\ XrefBeforeMarker(lsrc)
  /\ MarkerCount(lsrc.fields[1]) = 1
  /\ Len(lsrc.fields) = 2
  /\ lsrc.fields[2].toks = << Ordinal(Str1("2")), Tag("UK") >>
  /\ lret.result.Kanji = << Str1("A") >>

\* The definition fields of the line: the elements between the key field
\* and the identifier.
DefinitionFields == SubSeq(Elements, 2, Len(Elements) - 2)

\* The same fields once "(1)" was looked for: on a line of two fields or
\* more whose first field holds "(1)" once, what follows "(1)" is the first
\* field.
TrueFields ==
  LET f1 == DefinitionFields[1]
      at == Index(f1, TheMarker)
      rest == SubSeq(f1, at + Len(TheMarker), Len(f1))
  IN  IF Len(DefinitionFields) >= 2 /\ at # 0 /\ Index(rest, TheMarker) = 0
        THEN << rest >> \o Tail(DefinitionFields)
        ELSE DefinitionFields

Count(s, x) == Cardinality({ i \in DOMAIN s : s[i] = x })

\* The text written for the j-th sense of the line, after "(1)" where the
\* first field is split there.
SenseText(src, j) ==
  LET f == NonCommon(src.fields)[j]
  IN  IF j = 1 /\ ~src.fields[1].common /\ Len(src.fields) >= 2
           /\ MarkerCount(f) = 1
        THEN TextAfterMarker(f)
        ELSE f.text

-----------------------------------------------------------------------------
(* More properties of Parse, checked under Spec. *)

\* Parse returns an error without having been given a line: the read
\* failed.
ReadFails ==
  /\ pc = "scanning"
  /\ pc' = "returned"
  /\ lines' = lines
  /\ err' # NilError

\* C29: when the read of the next line fails, Parse returns the Entries it
\* had, and an error of the kind "past EOF" that names the last line read
\* and is not the parse error of any line; the Entries returned with such
\* an error are those of all the accepted lines read, in order.
C29_ReadErrorIsNotParseError ==
  /\ [][ReadFails => /\ result' = result
                     /\ err'.kind = "past EOF"
                     /\ err'.kind # "parse"
                     /\ err'.line = line]_vars
  /\ []((pc = "returned" /\ err.kind = "past EOF")
          => /\ result = AcceptedEntries(lines)
             /\ err = PastEOFError(first + Len(lines)))

\* The read fails at the third line, after an accepted line and a refused
\* line that is in blacklist.
C29_Witness ==
  /\ pc = "returned"
  /\ err.kind = "past EOF"
  /\ Len(lines) = 2
  /\ Accepts(lines[1])
  /\ Refuses(lines[2])
  /\ Len(result) = 1
  /\ err.line = first + 2


-----------------------------------------------------------------------------
(* parseLine and the identifier element, checked under SpecLine. *)

\* C30: on an accepted line the Glosses come from the elements between the
\* key field and the identifier only: there are no more Glosses than such
\* elements.
C30_IdentifierIsNoDefinition ==
  LineAccepted => Len(lret.result.Gloss) <= Len(DefinitionFields)


-----------------------------------------------------------------------------
(* The line counter of Parse, checked under Spec.  The lines before the    *)
(* first modelled line are taken as read: line starts at first.            *)

\* The number of lines read that were refused and skipped.
Skipped ==
  Cardinality({ i \in 1..Len(lines) :
                  Refuses(lines[i]) /\ LineNumber(i) \in blacklist })

\* Parse stopped at the last line read: its parse failed, or parseLine
\* aborted on it.
StoppedAtLine == pc = "panicked" \/ err.kind = "parse"

\* line counts the lines read, and the number in a parse error is the
\* position of the last line read, which parseLine refuses.
CountsLinesRead ==
  /\ line = first + Len(lines)
  /\ err.kind = "parse"
       => /\ lines # << >>
          /\ err.line = LineNumber(Len(lines))
          /\ Refuses(lines[Len(lines)])

\* C31 as stated: line increases by one for every line read, so that at
\* every point it is the number of Entries accumulated plus the number of
\* lines skipped, and the number in a parse error is the position of the
\* failing line.
C31_RecordsPlusSkipped ==
  pc \in {"scanning", "returned"}
  => /\ CountsLinesRead
     /\ line = first + Len(result) + Skipped

\* C31, amended: the same, the line at which Parse stopped being counted
\* too, though it gave no Entry and was not skipped.
C31_RecordsSkippedAndFailed ==
  /\ CountsLinesRead
  /\ line = first + Len(result) + Skipped + (IF StoppedAtLine THEN 1 ELSE 0)

\* An accepted line, a refused line whose number is in blacklist, and a
\* refused line at which Parse stops.
C31_Witness ==
  /\ pc = "returned"
  /\ err.kind = "parse"
  /\ Len(lines) = 3
  /\ Len(result) = 1
  /\ Skipped = 1
  /\ line = first + 3
  /\ err.line = line
  /\ line - 1 \in blacklist


\* C32: a line that parseLine accepts gives its Entry, appended to result,
\* whether its number is in blacklist or not: result holds the Entries of
\* all the accepted lines read, and after an accepted line read last it
\* ends with the Entry of that line.
C32_AcceptedLineNeverSkipped ==
  /\ pc # "panicked" => result = AcceptedEntries(lines)
  /\ \A i \in 1..Len(lines) :
       (Accepts(lines[i]) /\ LineNumber(i) \in blacklist /\ i = Len(lines))
       => /\ result # << >>
          /\ result[Len(result)] = parseLine(lines[i]).result
          /\ pc \in {"scanning", "returned"}
          /\ err.kind # "parse"

\* The second line read has a number of blacklist and is accepted; its
\* Entry follows that of the first line.
C32_Witness ==
  /\ pc = "scanning"
  /\ Len(lines) = 2
  /\ LineNumber(2) \in blacklist
  /\ Accepts(lines[1])
  /\ Accepts(lines[2])
  /\ lines[1] # lines[2]
  /\ result = << parseLine(lines[1]).result, parseLine(lines[2]).result >>


-----------------------------------------------------------------------------
(* The definition parseGloss returns, checked under SpecGloss. *)

GlossSucceeded == gpc = "done" /\ gret.err = NoErr

\* C33 as stated: the definition of a gloss parsed without error is not
\* empty and neither starts nor ends with white space.
C33_DefinitionTrimmed ==
  GlossSucceeded
  => /\ gret.def # << >>
     /\ Head(gret.def) \notin WhiteSpace
     /\ gret.def[Len(gret.def)] \notin WhiteSpace

\* C33, amended: it is not empty and does not end with white space, and it
\* starts with white space only after a parenthetical.
C33_DefinitionTrimmedRight ==
  GlossSucceeded
  => /\ gret.def # << >>
     /\ gret.def[Len(gret.def)] \notin WhiteSpace
     /\ Head(gret.def) \in WhiteSpace => gsrc.toks # << >>

\* "(n) f " gives the definition "f".
C33_Witness ==
  /\ GlossSucceeded
  /\ gsrc.toks = << Tag("N") >>
  /\ gsrc.gap = Str1(" ")
  /\ gsrc.text = Str2("f", " ")
  /\ gret.def = Str1("f")


-----------------------------------------------------------------------------
(* The text of the first field of a line, checked under SpecLine. *)

\* The runes of a text other than white space and those of "(1)".
Letters(text) == Range(text) \ (WhiteSpace \cup Range(TheMarker))

\* C34: on an accepted line of more than one sense, whatever the number of
\* "(1)" in its first field, every letter of the text of that field is in
\* the first Definition, and every annotation of the field is in the
\* Entry's Information or in that of the first Gloss.
C34_NoTextLost ==
  (LineAccepted /\ MultiSense(lsrc))
  => LET f1 == lsrc.fields[1]
         g1 == lret.result.Gloss[1]
     IN  /\ Letters(f1.text) \subseteq Range(g1.Definition)
         /\ Range(Details(f1.pre \o f1.toks))
              \subseteq Range(lret.result.Information) \cup Range(g1.Information)

=============================================================================
